---- MODULE Spec2Model ----
(***************************************************************************)
(* Black-Scholes accuracy test for Nifty50 options.                        *)
(*                                                                         *)
(* The module models the three scripts of the repository, which share the  *)
(* table options_df of one interpreter session:                            *)
(*   - the accuracy test (black_scholes and the __main__ block),           *)
(*   - the distribution cell, which recomputes the error columns when      *)
(*     they are missing and selects the errors to plot,                    *)
(*   - summary.py, the quantitative summary.                               *)
(*                                                                         *)
(* Floating point values are records [k, n, d]: k = "num" is the rational  *)
(* n/d in lowest terms with d > 0, k = "inf", "-inf" and "nan" are the     *)
(* IEEE specials, k = "sqrt" is the square root of n/d, k = "closed_form"  *)
(* is a Black-Scholes price left unevaluated (log, exp and the normal CDF  *)
(* are library functions), and k = "absent" stands for a missing column.   *)
(***************************************************************************)
EXTENDS Integers, Sequences, FiniteSets

VARIABLES
    args,            \* arguments of one direct call of black_scholes
    outcome,         \* what that call did: returned a value, or raised
    options_df,      \* the table: a sequence of rows
    columns,         \* the names of the columns options_df has
    pc,              \* "loaded", then "done" or "aborted" once __main__ ran
    overall,         \* OVERALL SUMMARY printed by __main__
    plot,            \* what the distribution cell did
    runs             \* the QUANTITATIVE SUMMARY outputs of summary.py, in order

vars == <<args, outcome, options_df, columns, pc, overall, plot, runs>>

-----------------------------------------------------------------------------
(* Bounds *)

MaxPrice == 3        \* spot and strike of a direct call range over 1..MaxPrice
MaxT     == 2        \* time to expiry of a direct call ranges over -MaxT..MaxT
MaxRows  == 3        \* rows of options_df
MaxRuns  == 2        \* times summary.py is run in the session

(* r and sigma of __main__, in units of 1/10000 *)
RiskFreeRate == 685
Volatility   == 1450

-----------------------------------------------------------------------------
(* Floating point values *)

Abs(i) == IF i < 0 THEN -i ELSE i

RECURSIVE GCD(_, _)
GCD(a, b) == IF b = 0 THEN a ELSE GCD(b, a % b)

Rat(n, d) ==
    LET g == GCD(Abs(n), Abs(d))
        s == IF d < 0 THEN -1 ELSE 1
    IN  [k |-> "num", n |-> (s * n) \div g, d |-> (s * d) \div g]

Num(i)     == [k |-> "num", n |-> i, d |-> 1]
Inf        == [k |-> "inf", n |-> 0, d |-> 1]
NegInf     == [k |-> "-inf", n |-> 0, d |-> 1]
NaN        == [k |-> "nan", n |-> 0, d |-> 1]
Absent     == [k |-> "absent", n |-> 0, d |-> 1]
ClosedForm == [k |-> "closed_form", n |-> 0, d |-> 1]

NotCalculated == [k |-> "not_calculated", n |-> 0, d |-> 1]

IsNum(x) == x.k = "num"

Sign(x) ==
    CASE x.k = "inf"  -> 1
      [] x.k = "-inf" -> -1
      [] OTHER        -> IF x.n > 0 THEN 1 ELSE IF x.n < 0 THEN -1 ELSE 0

Signed(s) == IF s > 0 THEN Inf ELSE IF s < 0 THEN NegInf ELSE NaN

FNeg(x) ==
    CASE x.k = "num"  -> [k |-> "num", n |-> 0 - x.n, d |-> x.d]
      [] x.k = "inf"  -> NegInf
      [] x.k = "-inf" -> Inf
      [] OTHER        -> NaN

FAdd(x, y) ==
    CASE x.k \notin {"num", "inf", "-inf"} \/ y.k \notin {"num", "inf", "-inf"} -> NaN
      [] IsNum(x) /\ IsNum(y) -> Rat(x.n * y.d + y.n * x.d, x.d * y.d)
      [] IsNum(x)             -> y
      [] IsNum(y)             -> x
      [] OTHER                -> IF x.k = y.k THEN x ELSE NaN

FSub(x, y) == FAdd(x, FNeg(y))

FMul(x, y) ==
    CASE x.k \notin {"num", "inf", "-inf"} \/ y.k \notin {"num", "inf", "-inf"} -> NaN
      [] IsNum(x) /\ IsNum(y) -> Rat(x.n * y.n, x.d * y.d)
      [] OTHER                -> Signed(Sign(x) * Sign(y))

(* numpy division: a zero divisor gives an infinity or NaN, it does not raise *)
FDiv(x, y) ==
    CASE x.k \notin {"num", "inf", "-inf"} \/ y.k \notin {"num", "inf", "-inf"} -> NaN
      [] IsNum(x) /\ IsNum(y) -> IF y.n = 0 THEN Signed(Sign(x))
                                            ELSE Rat(x.n * y.d, x.d * y.n)
      [] IsNum(x)             -> Num(0)
      [] IsNum(y)             -> Signed(Sign(x) * (IF y.n < 0 THEN -1 ELSE 1))
      [] OTHER                -> NaN

FAbs(x) ==
    CASE x.k = "num"  -> [k |-> "num", n |-> Abs(x.n), d |-> x.d]
      [] x.k = "-inf" -> Inf
      [] OTHER        -> x

(* x <= y for values that are not NaN *)
FLeq(x, y) ==
    CASE x.k = "-inf" \/ y.k = "inf" -> TRUE
      [] x.k = "inf" \/ y.k = "-inf" -> FALSE
      [] OTHER                       -> x.n * y.d <= y.n * x.d

(* max(0.0, x) of Python for an integer difference x *)
Max0(x) == IF x > 0 THEN x ELSE 0

-----------------------------------------------------------------------------
(* Strings: str.lower() and str.capitalize() on the spellings of Option_Type *)

Spellings == {"call", "Call", "CALL", "put", "Put", "PUT", "straddle"}

lower(s) ==
    CASE s \in {"call", "Call", "CALL"} -> "call"
      [] s \in {"put", "Put", "PUT"}    -> "put"
      [] OTHER                          -> "straddle"

capitalize(s) ==
    CASE s \in {"call", "Call", "CALL"} -> "Call"
      [] s \in {"put", "Put", "PUT"}    -> "Put"
      [] OTHER                          -> "Straddle"

-----------------------------------------------------------------------------
(* black_scholes(S, K, T, r, sigma, option_type)                           *)
(* S, K and T are integers; only the sign of T is read before the closed   *)
(* form, so the batch passes Time_to_Expiration_Days for T = days / 365.0. *)

Return(v)  == [tag |-> "return", err |-> "", val |-> v]
Raise(e)   == [tag |-> "raise", err |-> e, val |-> Absent]

(* The T <= 0 branch with the bug of a put valued as a call *)
expired_swapped(S, K, option_type) ==
    IF lower(option_type) = "call" THEN Return(Num(Max0(S - K)))
    ELSE IF lower(option_type) = "put" THEN Return(Num(Max0(S - K)))
    ELSE Return(Num(0))

(* The T <= 0 branch: the intrinsic value, and 0.0 for any other kind *)
expired(S, K, option_type) ==
    IF lower(option_type) = "call" THEN Return(Num(Max0(S - K)))
    ELSE IF lower(option_type) = "put" THEN Return(Num(Max0(K - S)))
    ELSE Return(Num(0))

(* d1 and d2 when sigma * sqrt(T) = 0 and r = 0: (log(S / K) + 0) / 0 *)
d1_degenerate(S, K) == Signed(S - K)

(* norm.cdf at an infinity or NaN *)
cdf(d) ==
    CASE d.k = "inf"  -> Num(1)
      [] d.k = "-inf" -> Num(0)
      [] OTHER        -> NaN

(* The T > 0 branch. d1 and d2 are computed before the kind is looked at;  *)
(* a zero sigma divides by zero without raising. With r = 0 and sigma = 0  *)
(* exp(-r * T) = 1 and the price is exact; otherwise it is the closed form.*)
regular(S, K, T, r, sigma, option_type) ==
    LET exact == (sigma = 0 /\ r = 0)
        d1    == d1_degenerate(S, K)
        d2    == FSub(d1, Num(0))
    IN  IF lower(option_type) = "call"
        THEN Return(IF exact
                    THEN FSub(FMul(Num(S), cdf(d1)), FMul(Num(K), cdf(d2)))
                    ELSE ClosedForm)
        ELSE IF lower(option_type) = "put"
        THEN Return(IF exact
                    THEN FSub(FMul(Num(K), cdf(FNeg(d2))), FMul(Num(S), cdf(FNeg(d1))))
                    ELSE ClosedForm)
        ELSE Raise("ValueError")

black_scholes(S, K, T, r, sigma, option_type) ==
    IF T <= 0 THEN expired(S, K, option_type)
    ELSE regular(S, K, T, r, sigma, option_type)

-----------------------------------------------------------------------------
(* Series operations of the table library *)

RECURSIVE Sum(_)
Sum(xs) == IF xs = <<>> THEN Num(0) ELSE FAdd(Head(xs), Sum(Tail(xs)))

RECURSIVE Insert(_, _)
Insert(x, xs) ==
    IF xs = <<>> THEN <<x>>
    ELSE IF FLeq(x, Head(xs)) THEN <<x>> \o xs
    ELSE <<Head(xs)>> \o Insert(x, Tail(xs))

RECURSIVE Sorted(_)
Sorted(xs) == IF xs = <<>> THEN <<>> ELSE Insert(Head(xs), Sorted(Tail(xs)))

(* the statistics skip NaN entries *)
dropna(xs) == SelectSeq(xs, LAMBDA x : x.k # "nan")

mean(xs) ==
    LET ys == dropna(xs)
    IN  IF ys = <<>> THEN NaN ELSE FDiv(Sum(ys), Num(Len(ys)))

median(xs) ==
    LET ys == Sorted(dropna(xs))
        n  == Len(ys)
    IN  IF n = 0 THEN NaN
        ELSE IF n % 2 = 1 THEN ys[(n + 1) \div 2]
        ELSE FDiv(FAdd(ys[n \div 2], ys[n \div 2 + 1]), Num(2))

(* sample standard deviation (N - 1 denominator): the square root of the variance *)
std(xs) ==
    LET ys  == dropna(xs)
        n   == Len(ys)
        m   == mean(ys)
        sq  == [i \in 1..n |-> FMul(FSub(ys[i], m), FSub(ys[i], m))]
        var == FDiv(Sum(sq), Num(n - 1))
    IN  IF n < 2 THEN NaN
        ELSE IF IsNum(var) THEN [k |-> "sqrt", n |-> var.n, d |-> var.d]
        ELSE NaN

isna(x) == x.k = "nan"

(* the entries of one column, in row order *)
Column(df, c) == [i \in 1..Len(df) |-> df[i][c]]

(* x != float('inf'), with the bug of keeping every row *)
not_inf_keep_all(x) == TRUE

(* x != float('inf') *)
not_inf(x) == x.k # "inf"

(* value_counts(): the number of rows per distinct spelling of Option_Type *)
value_counts(df) ==
    [s \in {df[i].Option_Type : i \in 1..Len(df)} |->
        Cardinality({i \in 1..Len(df) : df[i].Option_Type = s})]

-----------------------------------------------------------------------------
(* The error columns *)

(* the Percentage_Error lambda, with the bug of 0 for a zero market price *)
percentage_error_zero(pricing_error, option_close) ==
    IF option_close # 0
    THEN FMul(FDiv(pricing_error, Num(option_close)), Num(100))
    ELSE Num(0)

(* (Pricing_Error / Option_Close) * 100 if Option_Close != 0 else float('inf') *)
percentage_error(pricing_error, option_close) ==
    IF option_close # 0
    THEN FMul(FDiv(pricing_error, Num(option_close)), Num(100))
    ELSE Inf

(* Pricing_Error, Percentage_Error and Absolute_Percentage_Error of one row *)
WithErrors(row) ==
    LET pe  == FSub(row.Black_Scholes_Price, Num(row.Option_Close))
        pct == percentage_error(pe, row.Option_Close)
    IN  [row EXCEPT !.Pricing_Error = pe,
                    !.Percentage_Error = pct,
                    !.Absolute_Percentage_Error = FAbs(pct)]

ErrorColumns == {"Pricing_Error", "Percentage_Error", "Absolute_Percentage_Error"}

-----------------------------------------------------------------------------
(* The table after loading and cleaning *)

BatchSpots   == {3}
BatchStrikes == {1}
BatchCloses  == {0, 1, 2}
BatchKinds   == {"call", "CALL", "put", "straddle"}
BatchDays    == {0, 1}

BaseColumns == {"Nifty_Close", "Strike_Price", "Option_Close", "Option_Type"}

Price(row) ==
    black_scholes(row.Nifty_Close, row.Strike_Price, row.Time_to_Expiration_Days,
                  RiskFreeRate, Volatility, row.Option_Type)

(* Rows whose price the model holds exactly: every row at expiry, and the  *)
(* rows before expiry whose pricing raises.                                *)
Rows ==
    { row \in [Nifty_Close : BatchSpots, Strike_Price : BatchStrikes,
               Time_to_Expiration_Days : BatchDays, Option_Type : BatchKinds,
               Option_Close : BatchCloses, Black_Scholes_Price : {Absent},
               Pricing_Error : {Absent}, Percentage_Error : {Absent},
               Absolute_Percentage_Error : {Absent}] :
        Price(row).val.k # "closed_form" }

Tables == UNION { [1..n -> Rows] : n \in 0..MaxRows }

NoOutcome == [tag |-> "none", err |-> "", val |-> Absent]
NoArgs    == [S |-> 1, K |-> 1, T |-> 0, r |-> 0, sigma |-> 0, option_type |-> "call"]

-----------------------------------------------------------------------------
(* __main__ of the accuracy test *)

NoOverall == [status |-> "none", processed_rows |-> Absent, average_error |-> Absent]

(* FINAL SUMMARY: the mean is printed as it is, also when it is NaN *)
final_summary(df) ==
    IF Len(df) > 0
    THEN [status |-> "summary",
          processed_rows |-> Num(Len(df)),
          average_error |->
              mean(SelectSeq(Column(df, "Absolute_Percentage_Error"), not_inf))]
    ELSE [status |-> "no_data", processed_rows |-> Absent, average_error |-> Absent]

(* The price column is assigned only when apply has priced every row: an   *)
(* exception of black_scholes leaves the block. For a table without rows   *)
(* apply returns a frame, not a column, and the table library rejects or   *)
(* accepts the assignment depending on its version.                        *)
Main ==
    /\ pc = "loaded"
    /\ LET priced == [i \in 1..Len(options_df) |-> Price(options_df[i])]
           raised == \E i \in 1..Len(options_df) : priced[i].tag = "raise"
           df     == [i \in 1..Len(options_df) |->
                         WithErrors([options_df[i] EXCEPT
                                         !.Black_Scholes_Price = priced[i].val])]
       IN  \/ /\ raised \/ options_df = <<>>
              /\ pc' = "aborted"
              /\ columns' = columns \cup {"Time_to_Expiration_Days", "T"}
              /\ overall' = [NoOverall EXCEPT !.status = "raised"]
              /\ UNCHANGED options_df
           \/ /\ ~raised
              /\ pc' = "done"
              /\ columns' = columns \cup {"Time_to_Expiration_Days", "T",
                                          "Black_Scholes_Price"} \cup ErrorColumns
              /\ options_df' = df
              /\ overall' = final_summary(df)
    /\ UNCHANGED <<args, outcome, plot, runs>>

-----------------------------------------------------------------------------
(* The distribution cell *)

NoPlot == [status |-> "none", errors_to_plot |-> <<>>]

needs_error_columns(cols) ==
    "Pricing_Error" \notin cols \/ "Percentage_Error" \notin cols

PlotCell ==
    /\ pc # "loaded"
    /\ plot = NoPlot
    /\ IF needs_error_columns(columns) /\ "Black_Scholes_Price" \notin columns
       THEN /\ plot' = [NoPlot EXCEPT !.status = "KeyError"]
            /\ UNCHANGED <<options_df, columns>>
       ELSE LET df == IF needs_error_columns(columns)
                      THEN [i \in 1..Len(options_df) |-> WithErrors(options_df[i])]
                      ELSE options_df
                errors_to_plot ==
                    SelectSeq(Column(df, "Percentage_Error"), not_inf)
            IN  /\ options_df' = df
                /\ columns' = IF needs_error_columns(columns)
                              THEN columns \cup ErrorColumns ELSE columns
                /\ plot' = [status |-> IF errors_to_plot = <<>>
                                       THEN "nothing_to_plot" ELSE "plotted",
                            errors_to_plot |-> errors_to_plot]
    /\ UNCHANGED <<args, outcome, pc, overall, runs>>

-----------------------------------------------------------------------------
(* summary.py *)

(* what is printed for a statistic guarded by pd.isna *)
Printed(x) == IF isna(x) THEN NotCalculated ELSE x

(* Option_Type.str.lower() == kind, with the bug of comparing the raw spelling *)
is_kind_raw(option_type, kind) == option_type = kind

(* Option_Type.str.lower() == kind *)
is_kind(option_type, kind) == lower(option_type) = kind

(* the rows of one kind whose Absolute_Percentage_Error is not the sentinel *)
kind_options_df(df, kind) ==
    SelectSeq(df, LAMBDA row : is_kind(row.Option_Type, kind)
                               /\ not_inf(row.Absolute_Percentage_Error))

(* the per-kind mean, or the no-valid-data line *)
average_kind_error(df, kind) ==
    LET sub == kind_options_df(df, kind)
    IN  IF sub # <<>> THEN mean(Column(sub, "Absolute_Percentage_Error"))
        ELSE NotCalculated

NoReport ==
    [status |-> "none", processed_rows |-> Absent,
     option_counts |-> value_counts(<<>>),
     average_absolute_error |-> Absent, average_call_error |-> Absent,
     average_put_error |-> Absent, median_absolute_error |-> Absent,
     std_dev_error |-> Absent, mean_error |-> Absent]

summary(df, cols) ==
    IF df = <<>> THEN [NoReport EXCEPT !.status = "no_data"]
    ELSE IF ~(ErrorColumns \subseteq cols) THEN [NoReport EXCEPT !.status = "KeyError"]
    ELSE
        LET ape == SelectSeq(Column(df, "Absolute_Percentage_Error"), not_inf)
            pe  == SelectSeq(Column(df, "Percentage_Error"), not_inf)
        IN  [status |-> "summary",
             processed_rows |-> Num(Len(df)),
             option_counts |-> value_counts(df),
             average_absolute_error |-> Printed(mean(ape)),
             average_call_error |-> average_kind_error(df, "call"),
             average_put_error |-> average_kind_error(df, "put"),
             median_absolute_error |-> Printed(median(ape)),
             std_dev_error |-> Printed(std(pe)),
             mean_error |-> Printed(mean(pe))]

(* summary.py with the bug of dropping the sentinel rows from the table itself *)
Summary_in_place ==
    /\ pc # "loaded"
    /\ plot # NoPlot
    /\ Len(runs) < MaxRuns
    /\ runs' = Append(runs, summary(options_df, columns))
    /\ options_df' = IF ErrorColumns \subseteq columns
                     THEN SelectSeq(options_df,
                              LAMBDA row : not_inf(row.Absolute_Percentage_Error))
                     ELSE options_df
    /\ UNCHANGED <<args, outcome, columns, pc, overall, plot>>

Summary ==
    /\ pc # "loaded"
    /\ plot # NoPlot
    /\ Len(runs) < MaxRuns
    /\ runs' = Append(runs, summary(options_df, columns))
    /\ UNCHANGED <<args, outcome, options_df, columns, pc, overall, plot>>

-----------------------------------------------------------------------------
(* The session of the three scripts *)

Init ==
    /\ args = NoArgs
    /\ outcome = NoOutcome
    /\ options_df \in Tables
    /\ columns = BaseColumns \cup {"Date", "Expiry_Date"}
    /\ pc = "loaded"
    /\ overall = NoOverall
    /\ plot = NoPlot
    /\ runs = <<>>

Next == Main \/ PlotCell \/ Summary

Spec == Init /\ [][Next]_vars

-----------------------------------------------------------------------------
(* Direct calls of black_scholes *)

Rates == {0, RiskFreeRate}
Vols  == {0, Volatility}

InitPrice ==
    /\ args \in [S : 1..MaxPrice, K : 1..MaxPrice, T : (0 - MaxT)..MaxT,
                 r : Rates, sigma : Vols, option_type : Spellings]
    /\ outcome = NoOutcome
    /\ options_df = <<>>
    /\ columns = BaseColumns
    /\ pc = "idle"
    /\ overall = NoOverall
    /\ plot = NoPlot
    /\ runs = <<>>

Call ==
    /\ pc = "idle"
    /\ outcome = NoOutcome
    /\ outcome' = black_scholes(args.S, args.K, args.T, args.r, args.sigma,
                                args.option_type)
    /\ UNCHANGED <<args, options_df, columns, pc, overall, plot, runs>>

NextPrice == Call

SpecPrice == InitPrice /\ [][NextPrice]_vars

-----------------------------------------------------------------------------
(* Properties *)

Called      == outcome # NoOutcome
IsCall(t)   == t \in {"call", "Call", "CALL"}
IsPut(t)    == t \in {"put", "Put", "PUT"}
KnownKind   == IsCall(args.option_type) \/ IsPut(args.option_type)

N           == Len(options_df)
HasErrors   == ErrorColumns \subseteq columns
Reports     == {runs[i] : i \in 1..Len(runs)}
Summaries   == {rep \in Reports : rep.status = "summary"}

(* the records whose observed price is not zero, in input order *)
Defined     == SelectSeq(options_df, LAMBDA row : row.Option_Close # 0)
DefinedCall == SelectSeq(Defined, LAMBDA row : IsCall(row.Option_Type))
DefinedPut  == SelectSeq(Defined, LAMBDA row : IsPut(row.Option_Type))
APE(df)     == Column(df, "Absolute_Percentage_Error")
PE(df)      == Column(df, "Percentage_Error")

RECURSIVE Total(_, _)
Total(f, S) ==
    IF S = {} THEN 0
    ELSE LET s == CHOOSE x \in S : TRUE IN f[s] + Total(f, S \ {s})

(* C1: a call with T <= 0 returns exactly the intrinsic value, max(0, S - K) for
   a call and max(0, K - S) for a put, whatever the rate and the volatility. *)
C1_ExpiredIsIntrinsic ==
    (Called /\ args.T <= 0 /\ KnownKind) =>
        /\ outcome.tag = "return"
        /\ outcome.val.k = "num" /\ outcome.val.d = 1
        /\ outcome.val.n =
               IF IsCall(args.option_type)
               THEN (IF args.S > args.K THEN args.S - args.K ELSE 0)
               ELSE (IF args.K > args.S THEN args.K - args.S ELSE 0)

C1_Witness ==
    /\ Called /\ args.T < 0 /\ args.sigma = 0 /\ args.option_type = "Put"
    /\ args.K > args.S /\ outcome.val = Num(args.K - args.S)

(* C2: a call with a kind that is neither call nor put fails with the
   invalid-option-kind error and returns no price, for T <= 0 and for T > 0. *)
C2_UnknownKindRaises ==
    (Called /\ ~KnownKind) => outcome.tag = "raise"

(* C3: a call with volatility 0 and T > 0 and a known kind fails with the
   degenerate-volatility error and returns no value. *)
C3_ZeroVolatilityRaises ==
    (Called /\ args.sigma = 0 /\ args.T > 0 /\ KnownKind) => outcome.tag = "raise"

(* C4: in a table with the error columns, a record with observed price 0 has
   the sentinel as percentage error and absolute percentage error; a record
   with observed price o # 0 and price p has the finite percentage error
   (p - o) / o * 100 and its absolute value, never the sentinel. *)
C4_ErrorColumns ==
    HasErrors =>
        \A i \in 1..N :
            LET row == options_df[i]
                p   == row.Black_Scholes_Price
                o   == row.Option_Close
                pct == row.Percentage_Error
                ab  == row.Absolute_Percentage_Error
            IN  IF o = 0
                THEN pct = Inf /\ ab = Inf
                ELSE /\ pct.k = "num" /\ pct.d > 0
                     /\ pct.n * o * p.d = pct.d * 100 * (p.n - o * p.d)
                     /\ ab.k = "num" /\ ab.d = pct.d
                     /\ ab.n = (IF pct.n < 0 THEN 0 - pct.n ELSE pct.n)

C4_Witness ==
    /\ HasErrors
    /\ \E i, j \in 1..N :
          /\ options_df[i].Option_Close = 0
          /\ options_df[i].Percentage_Error = Inf
          /\ options_df[j].Option_Close = 2
          /\ options_df[j].Percentage_Error = Num(-100)

(* C5: every summary of N records reports the count N, and its mean absolute,
   median absolute, mean signed and standard deviation of the percentage error
   are those of the N - K records whose observed price is not zero. *)
C5_StatisticsOverDefined ==
    /\ \A rep \in Summaries :
          /\ rep.processed_rows = Num(N)
          /\ rep.average_absolute_error = Printed(mean(APE(Defined)))
          /\ rep.median_absolute_error = Printed(median(APE(Defined)))
          /\ rep.mean_error = Printed(mean(PE(Defined)))
          /\ rep.std_dev_error = Printed(std(PE(Defined)))
    /\ overall.status = "summary" =>
          /\ overall.processed_rows = Num(N)
          /\ overall.average_error = mean(APE(Defined))

C5_Witness ==
    /\ N = 3 /\ Len(Defined) = 2
    /\ \E rep \in Summaries :
          /\ rep.processed_rows = Num(3)
          /\ rep.std_dev_error.k = "sqrt" /\ rep.std_dev_error.n > 0
          /\ rep.average_absolute_error # rep.mean_error

(* C6: when no record has a non-zero observed price, every statistic a summary
   reports is reported as undefined, never as a number and never as a bare
   NaN; for the table without rows the count 0 is reported. *)
C6_EmptySubsetUndefined ==
    (\A i \in 1..N : options_df[i].Option_Close = 0) =>
        /\ overall.status = "summary" => overall.average_error = NotCalculated
        /\ \A rep \in Summaries :
              /\ rep.average_absolute_error = NotCalculated
              /\ rep.median_absolute_error = NotCalculated
              /\ rep.std_dev_error = NotCalculated
              /\ rep.mean_error = NotCalculated
              /\ rep.average_call_error = NotCalculated
              /\ rep.average_put_error = NotCalculated
        /\ \A rep \in Reports : N = 0 => rep.processed_rows = Num(0)

(* C7: when pricing one record fails, the batch still prices every other
   record and gives it an error sample, and still prints the summary with the
   count of all records. *)
C7_FailureDoesNotAbort ==
    (pc \in {"done", "aborted"} /\ \E i \in 1..N : Price(options_df[i]).tag = "raise") =>
        /\ \A i \in 1..N :
              Price(options_df[i]).tag = "return" =>
                  /\ options_df[i].Black_Scholes_Price # Absent
                  /\ options_df[i].Percentage_Error # Absent
        /\ overall.status = "summary"
        /\ overall.processed_rows = Num(N)

(* C8: the per-kind mean of a summary is the mean over exactly the records of
   that kind whose observed price is not zero, and the no-valid-data line when
   there is none. *)
C8_PerKindOverDefinedOfKind ==
    \A rep \in Summaries :
        /\ rep.average_call_error =
               IF DefinedCall = <<>> THEN NotCalculated ELSE mean(APE(DefinedCall))
        /\ rep.average_put_error =
               IF DefinedPut = <<>> THEN NotCalculated ELSE mean(APE(DefinedPut))

C8_Witness ==
    /\ \E i, j, l \in 1..N :
          /\ options_df[i].Option_Type = "CALL" /\ options_df[i].Option_Close = 1
          /\ options_df[j].Option_Type = "call" /\ options_df[j].Option_Close = 0
          /\ options_df[l].Option_Type = "put" /\ options_df[l].Option_Close = 2
    /\ \E rep \in Summaries :
          rep.average_call_error = Num(100) /\ rep.average_put_error = Num(100)

(* C9: a run of the summary leaves the table and its columns as they are and
   prints what the run before it printed; the error-column step on a table
   that has the error columns leaves the table and its columns as they are. *)
C9_SummaryIdempotent ==
    [][ /\ runs' # runs =>
              /\ options_df' = options_df /\ columns' = columns
              /\ runs # <<>> => runs'[Len(runs')] = runs[Len(runs)]
        /\ (plot' # plot /\ HasErrors) =>
              options_df' = options_df /\ columns' = columns ]_vars

C9_Witness ==
    /\ Len(runs) >= 2 /\ runs[1].status = "summary" /\ runs[2] = runs[1]
    /\ plot.status = "plotted"
    /\ \E i \in 1..N : options_df[i].Percentage_Error = Inf

(* C10: a summary has one count per kind, the spellings of a kind counted
   together as pricing and the per-kind mean class them; each count is at
   least the number of samples of that kind's mean, and the counts add up to
   the count of all records. *)
C10_OneCountPerKind ==
    \A rep \in Summaries :
        LET counts == rep.option_counts
            Lines(label) == {s \in DOMAIN counts : capitalize(s) = label}
        IN  /\ \A label \in {"Call", "Put"} : Cardinality(Lines(label)) <= 1
            /\ \A s \in DOMAIN counts :
                   counts[s] >= Len(kind_options_df(options_df, lower(s)))
            /\ Total(counts, DOMAIN counts) = N

====
